---------------------------- MODULE Spec2Model ----------------------------
(***************************************************************************)
(* SMP synchronisation core of the RISC-V bare-metal firmware:             *)
(* LR/SC spinlock (include/smp.h), AMO atomics (include/atomic.h),         *)
(* generation barrier and boot protocol (src/smp.c), and hart 0's Phase 4  *)
(* driver (src/main.c).                                                    *)
(*                                                                         *)
(* Each hart is a process.  One step is one access to shared memory        *)
(* together with the register-only instructions and fences around it.     *)
(* Memory is sequentially consistent: every cross-hart access of the code  *)
(* is ordered by the fences of spin_lock/spin_unlock/barrier_wait or by    *)
(* an .aqrl AMO, so the fences themselves are not steps.  A busy-wait      *)
(* iteration that re-reads an unchanged value changes no state and is a    *)
(* stuttering step; the loop exit is the step.                             *)
(***************************************************************************)
EXTENDS Integers, Sequences, FiniteSets, TLC

VARIABLES
    scen,     \* which program set is running: "phase4" or a unit scenario
    nharts,   \* NUM_HARTS of the build (number of participating harts)
    mem,      \* shared words, by name
    resv,     \* per hart: the address of its LR reservation, or "none"
    ip,       \* per hart: index of the current operation in its program
    pc,       \* per hart: position inside the current operation
    loc,      \* per hart: live locals/registers [tmp, gen, passed], the
              \* arguments [expected, desired] and result [ret] of a call
              \* whose caller keeps them, and [entry], the value the target
              \* word had when the compare-and-swap scenario started
    tests     \* hart 0's statics tests_passed / tests_total (main.c)

vars == <<scen, nharts, mem, resv, ip, pc, loc, tests>>

(***************************************************************************)
(* Bounds and program constants                                            *)
(***************************************************************************)
MaxHarts == 4          \* largest NUM_HARTS explored for the Phase 4 run
MaxBarrier == 4        \* largest participant count of the barrier-only scenario
MAX_HARTS == 8         \* smp.h: supported range of NUM_HARTS
CasHarts == 3          \* largest number of harts calling atomic_cas_u32 on one word
MaxTry == 3            \* largest number of harts calling spin_trylock on one lock
MaxStuck == 4          \* largest number of harts in the scenario of a lock never released
GenBits == 2           \* width in bits of the generation counter in the wrap scenario
MaxPrior == 1          \* shared words hold 0 .. MaxPrior when smp_init is called in the init scenario
MaxVal == 2            \* word values and arguments of atomic_cas_u32 are 0 .. MaxVal

Harts == 0 .. (nharts - 1)

Addrs == {"smp_hart_release", "smp_harts_online", "smp_print_lock",
          "smp_test_lock", "smp_lock_counter", "smp_atomic_counter",
          "bar_count", "bar_generation", "bar_total", "bar_lock"}

Locks == {"smp_print_lock", "smp_test_lock", "bar_lock"}

(***************************************************************************)
(* Programs: the sequence of calls each hart makes.                        *)
(***************************************************************************)
Op(f, a) == [f |-> f, a |-> a]

Barrier == Op("barrier_wait", "bar_lock")

LockTest == Op("lock_test", "smp_test_lock")

AtomicTest == Op("atomic_add", "smp_atomic_counter")

\* smp_secondary_entry, preceded by the boot spin of startup.S
smp_secondary_entry ==
    << Op("wait_release", "smp_hart_release"),
       Op("print_online", "smp_print_lock"),
       Op("atomic_add", "smp_harts_online"),
       Barrier,                                   \* barrier 1
       Barrier,                                   \* barrier 2
       LockTest,
       Barrier,                                   \* barrier 3
       Barrier,                                   \* barrier 4
       AtomicTest,
       Barrier,                                   \* barrier 5
       Barrier,                                   \* barrier 6
       Op("wfi", "none") >>

\* hart 0 counting itself online after releasing the secondaries
run_phase4_tests_counts_itself ==
    << Op("puts", "running"),
       Op("smp_init", "none"),
       Op("puts", "hart0_online"),
       Op("puts", "releasing"),
       Op("smp_release_harts", "smp_hart_release"),
       Op("atomic_add", "smp_harts_online"),
       Op("poll_online", "smp_harts_online"),
       Op("puts", "all_online"),
       Op("record_test", "true"),
       Barrier, Op("reset", "smp_lock_counter"), Barrier, LockTest, Barrier,
       Op("check", "smp_lock_counter"), Op("puts", "smp_lock_counter"),
       Op("record_test", "passed"),
       Op("reset", "smp_atomic_counter"), Barrier, AtomicTest, Barrier,
       Op("check", "smp_atomic_counter"), Op("puts", "smp_atomic_counter"),
       Op("record_test", "passed"),
       Barrier, Op("record_test", "true"),
       Op("print_summary", "none"),
       Op("platform_exit", "none") >>

\* test_smp_boot releasing the secondaries before it calls smp_init
run_phase4_tests_releases_first ==
    << Op("puts", "running"),
       Op("smp_release_harts", "smp_hart_release"),
       Op("smp_init", "none"),
       Op("puts", "hart0_online"),
       Op("puts", "releasing"),
       Op("poll_online", "smp_harts_online"),
       Op("puts", "all_online"),
       Op("record_test", "true"),
       Barrier, Op("reset", "smp_lock_counter"), Barrier, LockTest, Barrier,
       Op("check", "smp_lock_counter"), Op("puts", "smp_lock_counter"),
       Op("record_test", "passed"),
       Op("reset", "smp_atomic_counter"), Barrier, AtomicTest, Barrier,
       Op("check", "smp_atomic_counter"), Op("puts", "smp_atomic_counter"),
       Op("record_test", "passed"),
       Barrier, Op("record_test", "true"),
       Op("print_summary", "none"),
       Op("platform_exit", "none") >>

\* test_smp_spinlock resetting smp_lock_counter after barrier 2 instead of
\* before it
run_phase4_tests_resets_late ==
    << Op("puts", "running"),
       Op("smp_init", "none"),
       Op("puts", "hart0_online"),
       Op("puts", "releasing"),
       Op("smp_release_harts", "smp_hart_release"),
       Op("poll_online", "smp_harts_online"),
       Op("puts", "all_online"),
       Op("record_test", "true"),
       Barrier, Barrier, Op("reset", "smp_lock_counter"), LockTest, Barrier,
       Op("check", "smp_lock_counter"), Op("puts", "smp_lock_counter"),
       Op("record_test", "passed"),
       Op("reset", "smp_atomic_counter"), Barrier, AtomicTest, Barrier,
       Op("check", "smp_atomic_counter"), Op("puts", "smp_atomic_counter"),
       Op("record_test", "passed"),
       Barrier, Op("record_test", "true"),
       Op("print_summary", "none"),
       Op("platform_exit", "none") >>

\* run_phase4_tests with test_smp_boot, test_smp_spinlock, test_smp_atomic and
\* test_smp_barrier inlined, then print_summary and platform_exit of main.
\* Each "puts" is one line of console output of hart 0.
run_phase4_tests ==
    << Op("puts", "running"),
       Op("smp_init", "none"),
       Op("puts", "hart0_online"),
       Op("puts", "releasing"),
       Op("smp_release_harts", "smp_hart_release"),
       Op("poll_online", "smp_harts_online"),
       Op("puts", "all_online"),
       Op("record_test", "true"),
       Barrier,                                   \* barrier 1
       Op("reset", "smp_lock_counter"),
       Barrier,                                   \* barrier 2
       LockTest,
       Barrier,                                   \* barrier 3
       Op("check", "smp_lock_counter"),
       Op("puts", "smp_lock_counter"),
       Op("record_test", "passed"),
       Op("reset", "smp_atomic_counter"),
       Barrier,                                   \* barrier 4
       AtomicTest,
       Barrier,                                   \* barrier 5
       Op("check", "smp_atomic_counter"),
       Op("puts", "smp_atomic_counter"),
       Op("record_test", "passed"),
       Barrier,                                   \* barrier 6
       Op("record_test", "true"),
       Op("print_summary", "none"),
       Op("platform_exit", "none") >>

lock_test_once == << LockTest, Op("done", "none") >>

atomic_test_once == << AtomicTest, Op("done", "none") >>

\* one call of atomic_cas_u32(&word, expected, desired); the result is kept
atomic_cas_once == << Op("atomic_cas", "smp_atomic_counter"), Op("done", "none") >>

\* if (spin_trylock(&lock)) spin_unlock(&lock); made twice
trylock_twice ==
    << Op("spin_trylock", "smp_test_lock"), Op("spin_trylock", "smp_test_lock"),
       Op("done", "none") >>

\* if (spin_trylock(&lock)) spin_unlock(&lock); then the lock-protected
\* increment with spin_lock on the same lock
try_then_lock ==
    << Op("spin_trylock", "smp_test_lock"), LockTest, Op("done", "none") >>

\* spin_lock(&lock) by a caller that never calls spin_unlock
lock_and_keep == << Op("spin_lock", "smp_test_lock"), Op("done", "none") >>

\* hart 0 calling smp_init
smp_init_once == << Op("smp_init", "none"), Op("done", "none") >>

\* a secondary hart held in the boot spin, which makes no call
parked == << Op("done", "none") >>

barrier_six_times ==
    << Barrier, Barrier, Barrier, Barrier, Barrier, Barrier, Op("done", "none") >>

Program(h) ==
    CASE scen = "phase4" -> IF h = 0 THEN run_phase4_tests ELSE smp_secondary_entry
      [] scen = "lock" -> lock_test_once
      [] scen = "atomic" -> atomic_test_once
      [] scen \in {"barrier", "mismatch", "wrap"} -> barrier_six_times
      [] scen = "cas" -> atomic_cas_once
      [] scen = "trylock" -> trylock_twice
      [] scen = "mixed" -> try_then_lock
      [] scen = "stuck" -> IF h = 0 THEN lock_and_keep ELSE lock_test_once
      [] scen = "init" -> IF h = 0 THEN smp_init_once ELSE parked

\* for a program, the number of barrier_wait calls among its first i operations
BarrierCount(prog) ==
    [i \in 0 .. Len(prog) |->
        Cardinality({j \in 1 .. i : prog[j].f = "barrier_wait"})]

Hart0Barriers == BarrierCount(run_phase4_tests)

SecondaryBarriers == BarrierCount(smp_secondary_entry)

SixBarriers == BarrierCount(barrier_six_times)

NoBarriers == [i \in 0 .. 2 |-> 0]

BarrierTable(h) ==
    CASE scen = "phase4" -> IF h = 0 THEN Hart0Barriers ELSE SecondaryBarriers
      [] scen \in {"barrier", "mismatch", "wrap"} -> SixBarriers
      [] OTHER -> NoBarriers

CurOp(h) == Program(h)[ip[h]]

At(h, f, p) == h \in Harts /\ pc[h] = p /\ CurOp(h).f = f

Terminal(h) == CurOp(h).f \in {"wfi", "platform_exit", "done"}

\* number of barrier_wait calls hart h has returned from
BarriersDone(h) == BarrierTable(h)[ip[h] - 1]

\* number of barrier_wait calls hart h has reached (called or returned from)
BarriersReached(h) == BarrierTable(h)[ip[h]]

NoLocals ==
    [tmp |-> 0, gen |-> 0, passed |-> FALSE,
     expected |-> 0, desired |-> 0, ret |-> 0, entry |-> 0]

(***************************************************************************)
(* Memory                                                                  *)
(***************************************************************************)
\* A store by hart h to address a: other harts lose a reservation on a.
Store(h, a, v) ==
    /\ mem' = [mem EXCEPT ![a] = v]
    /\ resv' = [g \in Harts |-> IF g # h /\ resv[g] = a THEN "none" ELSE resv[g]]

\* the operation is over: continue with the next one of the program
Return(h) ==
    /\ ip' = [ip EXCEPT ![h] = @ + 1]
    /\ pc' = [pc EXCEPT ![h] = "start"]

Goto(h, p) ==
    /\ pc' = [pc EXCEPT ![h] = p]
    /\ UNCHANGED ip

\* BSS as cleared by hart 0 before main
ZeroMem == [a \in Addrs |-> 0]

InitHarts(n) ==
    /\ nharts = n
    /\ mem = ZeroMem
    /\ resv = [h \in 0 .. (n - 1) |-> "none"]
    /\ ip = [h \in 0 .. (n - 1) |-> 1]
    /\ pc = [h \in 0 .. (n - 1) |-> "start"]
    /\ loc = [h \in 0 .. (n - 1) |-> NoLocals]
    /\ tests = [passed |-> 0, total |-> 0]

(***************************************************************************)
(* spin_lock / spin_unlock (smp.h)                                         *)
(***************************************************************************)
UsesLock(h) ==
    CurOp(h).f \in {"print_online", "lock_test", "barrier_wait", "spin_lock"}

LockOf(h) == CurOp(h).a

\* the operations that acquire a lock: by spin_lock, or by spin_trylock
TakesLock(h) == UsesLock(h) \/ CurOp(h).f = "spin_trylock"

\* hart h is between a returned spin_lock(L), or a spin_trylock(L) that
\* returned true, and the store of spin_unlock(L)
Holds(h, L) ==
    /\ h \in Harts
    /\ TakesLock(h)
    /\ LockOf(h) = L
    /\ pc[h] \notin {"start", "sc", "spin"}

\* spin_lock without the branch back on a lock read as held
spin_lock_lr_nocheck(h) ==
    /\ h \in Harts
    /\ UsesLock(h)
    /\ pc[h] = "start"
    /\ resv' = [resv EXCEPT ![h] = LockOf(h)]
    /\ Goto(h, "sc")
    /\ UNCHANGED <<scen, nharts, mem, loc, tests>>

\* spin_lock giving up on a lock it read held
spin_lock_lr_times_out(h) ==
    /\ h \in Harts
    /\ UsesLock(h)
    /\ pc[h] = "start"
    /\ IF mem[LockOf(h)] # 0
          THEN Return(h) /\ UNCHANGED resv
          ELSE Goto(h, "sc") /\ resv' = [resv EXCEPT ![h] = LockOf(h)]
    /\ UNCHANGED <<scen, nharts, mem, loc, tests>>

\* lr.w tmp,(lock); bnez tmp,1b
\* The reservation of an lr that read the lock held is dead (the hart's next
\* access is the lr again, which replaces it), so it is not recorded.
spin_lock_lr(h) ==
    /\ h \in Harts
    /\ UsesLock(h)
    /\ pc[h] = "start"
    /\ IF mem[LockOf(h)] # 0
          THEN Goto(h, "start") /\ UNCHANGED resv
          ELSE Goto(h, "sc") /\ resv' = [resv EXCEPT ![h] = LockOf(h)]
    /\ UNCHANGED <<scen, nharts, mem, loc, tests>>

\* a plain store in place of the store-conditional
SCAlwaysSucceeds(h, a) == TRUE

\* the store-conditional of hart h to a succeeds only on a live reservation
SCMaySucceed(h, a) == resv[h] = a

\* li tmp,1; sc.w tmp,tmp,(lock) writing the lock; fence rw,rw
spin_lock_sc(h) ==
    /\ h \in Harts
    /\ UsesLock(h)
    /\ pc[h] = "sc"
    /\ SCMaySucceed(h, LockOf(h))
    /\ mem' = [mem EXCEPT ![LockOf(h)] = 1]
    /\ resv' = [g \in Harts |-> IF g = h \/ resv[g] = LockOf(h) THEN "none" ELSE resv[g]]
    /\ Goto(h, "cs")
    /\ UNCHANGED <<scen, nharts, loc, tests>>

\* a store-conditional that reports failure but has written the lock word
spin_lock_sc_fail_stores(h) ==
    /\ h \in Harts
    /\ UsesLock(h)
    /\ pc[h] = "sc"
    /\ Store(h, LockOf(h), 1)
    /\ Goto(h, "start")
    /\ UNCHANGED <<scen, nharts, loc, tests>>

\* sc.w failing (reservation lost, or a spurious failure); bnez tmp,1b
spin_lock_sc_fail(h) ==
    /\ h \in Harts
    /\ UsesLock(h)
    /\ pc[h] = "sc"
    /\ resv' = [resv EXCEPT ![h] = "none"]
    /\ Goto(h, "start")
    /\ UNCHANGED <<scen, nharts, mem, loc, tests>>

\* spin_unlock that leaves the lock word set
spin_unlock_no_store(h) ==
    /\ h \in Harts
    /\ UsesLock(h)
    /\ pc[h] \in {"unlock", "unlock_w"}
    /\ IF pc[h] = "unlock_w"
          THEN Goto(h, "spin") /\ UNCHANGED loc
          ELSE Return(h) /\ loc' = [loc EXCEPT ![h] = NoLocals]
    /\ UNCHANGED <<scen, nharts, mem, resv, tests>>

\* fence rw,rw; lock->lock = 0
spin_unlock(h) ==
    /\ h \in Harts
    /\ TakesLock(h)
    /\ pc[h] \in {"unlock", "unlock_w"}
    /\ Store(h, LockOf(h), 0)
    /\ IF pc[h] = "unlock_w"
          THEN Goto(h, "spin") /\ UNCHANGED loc
          ELSE Return(h) /\ loc' = [loc EXCEPT ![h] = NoLocals]
    /\ UNCHANGED <<scen, nharts, tests>>

(***************************************************************************)
(* spin_trylock (smp.h)                                                    *)
(***************************************************************************)
\* lr.w tmp,(lock); bnez tmp,1f  /  1: li result,0
\* The reservation of an lr followed by the return is dead and not recorded.
spin_trylock_lr(h) ==
    /\ At(h, "spin_trylock", "start")
    /\ IF mem[LockOf(h)] # 0
          THEN /\ resv' = [resv EXCEPT ![h] = "none"]
               /\ loc' = [loc EXCEPT ![h].ret = 0]
               /\ Return(h)
          ELSE /\ resv' = [resv EXCEPT ![h] = LockOf(h)]
               /\ Goto(h, "sc")
               /\ UNCHANGED loc
    /\ UNCHANGED <<scen, nharts, mem, tests>>

\* li tmp,1; sc.w result,tmp,(lock) writing the lock; fence rw,rw; li result,1
\* The caller, having got true, goes on to its spin_unlock.
spin_trylock_sc(h) ==
    /\ At(h, "spin_trylock", "sc")
    /\ SCMaySucceed(h, LockOf(h))
    /\ mem' = [mem EXCEPT ![LockOf(h)] = 1]
    /\ resv' = [g \in Harts |-> IF g = h \/ resv[g] = LockOf(h) THEN "none" ELSE resv[g]]
    /\ loc' = [loc EXCEPT ![h].ret = 1]
    /\ Goto(h, "unlock")
    /\ UNCHANGED <<scen, nharts, tests>>

\* a failed store-conditional branching back to the lr, as in spin_lock
spin_trylock_sc_fail_retries(h) ==
    /\ At(h, "spin_trylock", "sc")
    /\ resv' = [resv EXCEPT ![h] = "none"]
    /\ Goto(h, "start")
    /\ UNCHANGED <<scen, nharts, mem, loc, tests>>

\* sc.w failing (reservation lost, or a spurious failure); bnez result,1f
\* 1: li result,0
spin_trylock_sc_fail(h) ==
    /\ At(h, "spin_trylock", "sc")
    /\ resv' = [resv EXCEPT ![h] = "none"]
    /\ loc' = [loc EXCEPT ![h].ret = 0]
    /\ Return(h)
    /\ UNCHANGED <<scen, nharts, mem, tests>>

(***************************************************************************)
(* atomic_add_u32 (atomic.h): amoadd.w.aqrl                                *)
(***************************************************************************)
\* amoswap in place of amoadd
AmoSwap(old, val) == val

AmoAdd(old, val) == old + val

\* the value after the addition returned in place of the value before it
AmoResultNew(old, new) == new

\* amoadd.w's destination register: the value the word held before
AmoResult(old, new) == old

\* The callers of the Phase 4 run discard the result of atomic_add_u32; the
\* caller of the stand-alone atomic scenario keeps it.
ResultUsed(h) == scen = "atomic"

atomic_add_u32(h) ==
    /\ At(h, "atomic_add", "start")
    /\ Store(h, CurOp(h).a, AmoAdd(mem[CurOp(h).a], 1))
    /\ loc' = IF ResultUsed(h)
                 THEN [loc EXCEPT ![h].ret = AmoResult(mem[CurOp(h).a],
                                                        AmoAdd(mem[CurOp(h).a], 1))]
                 ELSE loc
    /\ Return(h)
    /\ UNCHANGED <<scen, nharts, tests>>

(***************************************************************************)
(* atomic_cas_u32 (atomic.h): the LR/SC loop                               *)
(***************************************************************************)
\* the compare-and-swap without its bne
CasAlwaysMatches(cur, expected) == TRUE

\* bne tmp,expected,2f not taken
CasMatches(cur, expected) == cur = expected

\* 1: lr.w.aqrl tmp,(ptr); bne tmp,expected,2f  /  2: li result,0
\* The reservation of an lr followed by the return is dead and not recorded.
atomic_cas_lr(h) ==
    /\ At(h, "atomic_cas", "start")
    /\ IF CasMatches(mem[CurOp(h).a], loc[h].expected)
          THEN /\ resv' = [resv EXCEPT ![h] = CurOp(h).a]
               /\ Goto(h, "sc")
               /\ UNCHANGED loc
          ELSE /\ resv' = [resv EXCEPT ![h] = "none"]
               /\ loc' = [loc EXCEPT ![h].ret = 0]
               /\ Return(h)
    /\ UNCHANGED <<scen, nharts, mem, tests>>

\* sc.w.rl result,desired,(ptr) writing the word; li result,1
atomic_cas_sc(h) ==
    /\ At(h, "atomic_cas", "sc")
    /\ SCMaySucceed(h, CurOp(h).a)
    /\ mem' = [mem EXCEPT ![CurOp(h).a] = loc[h].desired]
    /\ resv' = [g \in Harts |-> IF g = h \/ resv[g] = CurOp(h).a
                                   THEN "none" ELSE resv[g]]
    /\ loc' = [loc EXCEPT ![h].ret = 1]
    /\ Return(h)
    /\ UNCHANGED <<scen, nharts, tests>>

\* a failed store-conditional reported to the caller as failure of the swap
atomic_cas_sc_fail_gives_up(h) ==
    /\ At(h, "atomic_cas", "sc")
    /\ resv' = [resv EXCEPT ![h] = "none"]
    /\ loc' = [loc EXCEPT ![h].ret = 0]
    /\ Return(h)
    /\ UNCHANGED <<scen, nharts, mem, tests>>

\* sc.w.rl failing (reservation lost, or a spurious failure); bnez result,1b
atomic_cas_sc_fail(h) ==
    /\ At(h, "atomic_cas", "sc")
    /\ resv' = [resv EXCEPT ![h] = "none"]
    /\ Goto(h, "start")
    /\ UNCHANGED <<scen, nharts, mem, loc, tests>>

(***************************************************************************)
(* barrier_wait (smp.c), after its spin_lock(&bar->lock)                   *)
(***************************************************************************)
\* bar->count++ : the load of the volatile
barrier_count_load(h) ==
    /\ At(h, "barrier_wait", "cs")
    /\ loc' = [loc EXCEPT ![h].tmp = mem["bar_count"]]
    /\ Goto(h, "inc")
    /\ UNCHANGED <<scen, nharts, mem, resv, tests>>

\* bar->count++ : the store of the volatile
barrier_count_store(h) ==
    /\ At(h, "barrier_wait", "inc")
    /\ Store(h, "bar_count", loc[h].tmp + 1)
    /\ loc' = [loc EXCEPT ![h].tmp = 0]
    /\ Goto(h, "ldgen")
    /\ UNCHANGED <<scen, nharts, tests>>

\* gen captured from bar->count instead of bar->generation
barrier_capture_count(h) ==
    /\ At(h, "barrier_wait", "ldgen")
    /\ loc' = [loc EXCEPT ![h].gen = mem["bar_count"]]
    /\ Goto(h, "cmp")
    /\ UNCHANGED <<scen, nharts, mem, resv, tests>>

\* the lock released before the comparison of the count
barrier_capture_gen_unlocks(h) ==
    /\ At(h, "barrier_wait", "ldgen")
    /\ loc' = [loc EXCEPT ![h].gen = mem["bar_generation"]]
    /\ Store(h, "bar_lock", 0)
    /\ Goto(h, "cmp")
    /\ UNCHANGED <<scen, nharts, tests>>

\* uint32_t gen = bar->generation
barrier_capture_gen(h) ==
    /\ At(h, "barrier_wait", "ldgen")
    /\ loc' = [loc EXCEPT ![h].gen = mem["bar_generation"]]
    /\ Goto(h, "cmp")
    /\ UNCHANGED <<scen, nharts, mem, resv, tests>>

\* the comparison taken against the count before the increment
IsLastArriverOffByOne(count, total) == count >= total - 1

\* > in place of >=
IsLastArriverStrict(count, total) == count > total

\* the last arriver is the one that reads count >= total
IsLastArriver(count, total) == count >= total

\* if (bar->count >= bar->total)
barrier_compare(h) ==
    /\ At(h, "barrier_wait", "cmp")
    /\ IF IsLastArriver(mem["bar_count"], mem["bar_total"])
          THEN Goto(h, "reset")
          ELSE Goto(h, "unlock_w")
    /\ UNCHANGED <<scen, nharts, mem, resv, loc, tests>>

\* the last arriver leaving the count as it is
barrier_reset_count_skipped(h) ==
    /\ At(h, "barrier_wait", "reset")
    /\ Goto(h, "ldbump")
    /\ UNCHANGED <<scen, nharts, mem, resv, loc, tests>>

\* bar->count = 0; mb()
barrier_reset_count(h) ==
    /\ At(h, "barrier_wait", "reset")
    /\ Store(h, "bar_count", 0)
    /\ Goto(h, "ldbump")
    /\ UNCHANGED <<scen, nharts, loc, tests>>

\* bar->generation++ : the load of the volatile
barrier_gen_load(h) ==
    /\ At(h, "barrier_wait", "ldbump")
    /\ loc' = [loc EXCEPT ![h].tmp = mem["bar_generation"]]
    /\ Goto(h, "bump")
    /\ UNCHANGED <<scen, nharts, mem, resv, tests>>

\* number of values of the generation counter in the wrap scenario
GenModulus == 2 ^ GenBits

\* uint32_t generation: the incremented value as the word holds it. The wrap
\* scenario narrows the word to GenBits bits; in the other scenarios the
\* counter stays below 7 and the 32-bit word never wraps.
GenWord(v) == IF scen = "wrap" THEN v % GenModulus ELSE v

\* the generation advanced by two
barrier_gen_store_by_two(h) ==
    /\ At(h, "barrier_wait", "bump")
    /\ Store(h, "bar_generation", loc[h].tmp + 2)
    /\ loc' = [loc EXCEPT ![h].tmp = 0]
    /\ Goto(h, "unlock")
    /\ UNCHANGED <<scen, nharts, tests>>

\* bar->generation++ : the store of the volatile
barrier_gen_store(h) ==
    /\ At(h, "barrier_wait", "bump")
    /\ Store(h, "bar_generation", GenWord(loc[h].tmp + 1))
    /\ loc' = [loc EXCEPT ![h].tmp = 0]
    /\ Goto(h, "unlock")
    /\ UNCHANGED <<scen, nharts, tests>>

\* a waiter that does not wait
SpinExitsAlways(cur, captured) == TRUE

\* a waiter that waits for a generation above the captured one
SpinExitsWhenGreater(cur, captured) == cur > captured

\* the waiter leaves its loop when the generation it reads is not the captured one
SpinExits(cur, captured) == cur # captured

\* a waiter released by the reset of the count
barrier_spin_exit_on_count(h) ==
    /\ At(h, "barrier_wait", "spin")
    /\ mem["bar_count"] = 0
    /\ loc' = [loc EXCEPT ![h] = NoLocals]
    /\ Return(h)
    /\ UNCHANGED <<scen, nharts, mem, resv, tests>>

\* while (bar->generation == gen) {} left; mb(); return
barrier_spin_exit(h) ==
    /\ At(h, "barrier_wait", "spin")
    /\ SpinExits(mem["bar_generation"], loc[h].gen)
    /\ loc' = [loc EXCEPT ![h] = NoLocals]
    /\ Return(h)
    /\ UNCHANGED <<scen, nharts, mem, resv, tests>>

(***************************************************************************)
(* The lock-protected increment (smp.c 194-197, main.c 275-277)            *)
(***************************************************************************)
\* smp_lock_counter++ : the load of the volatile
lock_counter_load(h) ==
    /\ At(h, "lock_test", "cs")
    /\ loc' = [loc EXCEPT ![h].tmp = mem["smp_lock_counter"]]
    /\ Goto(h, "inc")
    /\ UNCHANGED <<scen, nharts, mem, resv, tests>>

\* the increment's store also clearing the lock word, before spin_unlock
lock_counter_store_unlocks(h) ==
    /\ At(h, "lock_test", "inc")
    /\ mem' = [mem EXCEPT !["smp_lock_counter"] = loc[h].tmp + 1,
                           !["smp_test_lock"] = 0]
    /\ resv' = [g \in Harts |-> IF g # h THEN "none" ELSE resv[g]]
    /\ loc' = [loc EXCEPT ![h].tmp = 0]
    /\ Goto(h, "unlock")
    /\ UNCHANGED <<scen, nharts, tests>>

\* smp_lock_counter++ : the store of the volatile
lock_counter_store(h) ==
    /\ At(h, "lock_test", "inc")
    /\ Store(h, "smp_lock_counter", loc[h].tmp + 1)
    /\ loc' = [loc EXCEPT ![h].tmp = 0]
    /\ Goto(h, "unlock")
    /\ UNCHANGED <<scen, nharts, tests>>

(***************************************************************************)
(* Boot protocol (smp.c) and secondary entry                               *)
(***************************************************************************)
\* barrier_init leaving the generation as it finds it
barrier_init_keeps_generation(m, total) ==
    [m EXCEPT !["bar_count"] = 0, !["bar_total"] = total, !["bar_lock"] = 0]

\* barrier_init(bar, total)
barrier_init(m, total) ==
    [m EXCEPT !["bar_count"] = 0, !["bar_generation"] = 0,
              !["bar_total"] = total, !["bar_lock"] = 0]

\* smp_init also setting the release flag
SmpInitMemReleases(m, n) ==
    [m EXCEPT !["smp_hart_release"] = 1, !["bar_total"] = n]

\* smp_init's stores, applied to memory m
SmpInitMem(m, n) ==
    barrier_init([m EXCEPT !["smp_harts_online"] = 0, !["smp_lock_counter"] = 0,
                           !["smp_atomic_counter"] = 0, !["smp_print_lock"] = 0,
                           !["smp_test_lock"] = 0], n)

smp_init(h) ==
    /\ At(h, "smp_init", "start")
    /\ mem' = SmpInitMem(mem, nharts)
    /\ resv' = [g \in Harts |-> IF g # h /\ resv[g] # "smp_hart_release"
                                   THEN "none" ELSE resv[g]]
    /\ Return(h)
    /\ UNCHANGED <<scen, nharts, loc, tests>>

\* wmb(); smp_hart_release = 1; wmb()
smp_release_harts(h) ==
    /\ At(h, "smp_release_harts", "start")
    /\ Store(h, "smp_hart_release", 1)
    /\ Return(h)
    /\ UNCHANGED <<scen, nharts, loc, tests>>

\* secondary hart in startup.S: leaves its spin on smp_hart_release
wait_release(h) ==
    /\ At(h, "wait_release", "start")
    /\ mem["smp_hart_release"] # 0
    /\ Return(h)
    /\ UNCHANGED <<scen, nharts, mem, resv, loc, tests>>

\* console_puts("[SMP] Hart "); print_hart_id(hartid); console_puts(" online\n")
\* under smp_print_lock: one step per console write
print_online_puts(h) ==
    /\ h \in Harts
    /\ CurOp(h).f = "print_online"
    /\ pc[h] \in {"cs", "puts2", "puts3"}
    /\ Goto(h, CASE pc[h] = "cs" -> "puts2"
                 [] pc[h] = "puts2" -> "puts3"
                 [] pc[h] = "puts3" -> "unlock")
    /\ UNCHANGED <<scen, nharts, mem, resv, loc, tests>>

(***************************************************************************)
(* Hart 0's driver (main.c)                                                *)
(***************************************************************************)
\* the loop bound one too small
PollExitsOffByOne(online, n) == ~(online < n - 2)

\* the polling loop of test_smp_boot is left when the counter read is not < NUM_HARTS-1
PollExits(online, n) == ~(online < n - 1)

\* while (smp_get_harts_online() < NUM_HARTS - 1) {} left; mb()
poll_online(h) ==
    /\ At(h, "poll_online", "start")
    /\ PollExits(mem["smp_harts_online"], nharts)
    /\ Return(h)
    /\ UNCHANGED <<scen, nharts, mem, resv, loc, tests>>

\* a line of console output by hart 0, print_summary included
console_puts(h) ==
    /\ h \in Harts
    /\ CurOp(h).f \in {"puts", "print_summary"}
    /\ pc[h] = "start"
    /\ Return(h)
    /\ UNCHANGED <<scen, nharts, mem, resv, loc, tests>>

\* smp_lock_counter = 0; wmb()  /  smp_atomic_counter = 0; wmb()
reset_counter(h) ==
    /\ At(h, "reset", "start")
    /\ Store(h, CurOp(h).a, 0)
    /\ Return(h)
    /\ UNCHANGED <<scen, nharts, loc, tests>>

\* the counter compared with the number of secondary harts
check_counter_secondaries_only(h) ==
    /\ At(h, "check", "start")
    /\ loc' = [loc EXCEPT ![h].passed = (mem[CurOp(h).a] = nharts - 1)]
    /\ Return(h)
    /\ UNCHANGED <<scen, nharts, mem, resv, tests>>

\* bool passed = (counter == (uint32_t) NUM_HARTS)
check_counter(h) ==
    /\ At(h, "check", "start")
    /\ loc' = [loc EXCEPT ![h].passed = (mem[CurOp(h).a] = nharts)]
    /\ Return(h)
    /\ UNCHANGED <<scen, nharts, mem, resv, tests>>

\* record_test(name, passed)
record_test(h) ==
    /\ At(h, "record_test", "start")
    /\ LET ok == IF CurOp(h).a = "true" THEN TRUE ELSE loc[h].passed
       IN tests' = [passed |-> tests.passed + (IF ok THEN 1 ELSE 0),
                    total |-> tests.total + 1]
    /\ loc' = [loc EXCEPT ![h].passed = FALSE]
    /\ Return(h)
    /\ UNCHANGED <<scen, nharts, mem, resv>>

(***************************************************************************)
(* Specifications                                                          *)
(***************************************************************************)
Init ==
    /\ scen = "phase4"
    /\ \E n \in 2 .. MaxHarts : InitHarts(n)

SpinLockStep(h) ==
    \/ spin_lock_lr(h)
    \/ spin_lock_sc(h)
    \/ spin_lock_sc_fail(h)
    \/ spin_unlock(h)

BarrierStep(h) ==
    \/ barrier_count_load(h)
    \/ barrier_count_store(h)
    \/ barrier_capture_gen(h)
    \/ barrier_compare(h)
    \/ barrier_reset_count(h)
    \/ barrier_gen_load(h)
    \/ barrier_gen_store(h)
    \/ barrier_spin_exit(h)

LockTestStep(h) ==
    \/ lock_counter_load(h)
    \/ lock_counter_store(h)

BootStep(h) ==
    \/ smp_init(h)
    \/ smp_release_harts(h)
    \/ wait_release(h)
    \/ print_online_puts(h)
    \/ poll_online(h)
    \/ console_puts(h)
    \/ reset_counter(h)
    \/ check_counter(h)
    \/ record_test(h)

Step(h) ==
    \/ SpinLockStep(h)
    \/ BarrierStep(h)
    \/ LockTestStep(h)
    \/ atomic_add_u32(h)
    \/ BootStep(h)

Next == \E h \in Harts : Step(h)

\* the Phase 4 run: hart 0 in run_phase4_tests, the others in smp_secondary_entry
Spec == Init /\ [][Next]_vars

\* Every hart is a hardware thread that keeps executing, and the constrained
\* LR/SC loop of spin_lock is guaranteed eventual success by the ISA: among
\* the harts retrying, some store-conditional eventually succeeds.
FairSpec ==
    /\ Spec
    /\ \A h \in 0 .. (MaxHarts - 1) : WF_vars(Step(h))
    /\ SF_vars(\E h \in Harts : spin_lock_sc(h))

\* state after smp_init for n participants, every hart at its first operation
InitUnit(n) ==
    /\ nharts = n
    /\ mem = SmpInitMem(ZeroMem, n)
    /\ resv = [h \in 0 .. (n - 1) |-> "none"]
    /\ ip = [h \in 0 .. (n - 1) |-> 1]
    /\ pc = [h \in 0 .. (n - 1) |-> "start"]
    /\ loc = [h \in 0 .. (n - 1) |-> NoLocals]
    /\ tests = [passed |-> 0, total |-> 0]

\* N harts each running one counter test once: the lock-protected increment
\* ("lock") or the atomic increment ("atomic"), N in the supported range
InitCounters ==
    /\ scen \in {"lock", "atomic"}
    /\ \E n \in 1 .. MAX_HARTS : InitUnit(n)

NextCounters ==
    \E h \in Harts : SpinLockStep(h) \/ LockTestStep(h) \/ atomic_add_u32(h)

SpecCounters == InitCounters /\ [][NextCounters]_vars

\* total participants each calling barrier_wait 6 times on one barrier
InitBarrier ==
    /\ scen = "barrier"
    /\ \E n \in 1 .. MaxBarrier : InitUnit(n)

BarrierHartStep(h) == SpinLockStep(h) \/ BarrierStep(h)

NextBarrier == \E h \in Harts : BarrierHartStep(h)

SpecBarrier == InitBarrier /\ [][NextBarrier]_vars

FairBarrier ==
    /\ SpecBarrier
    /\ \A h \in 0 .. (MaxBarrier - 1) : WF_vars(BarrierHartStep(h))
    /\ SF_vars(\E h \in Harts : spin_lock_sc(h))

\* bound on the participants of the misconfigured barrier
MaxMismatch == 3

\* Misconfigured barrier: 1..MaxMismatch participants each call barrier_wait
\* six times on a barrier initialised with a total of 1..MaxMismatch+1 other
\* than their number.
InitMismatch ==
    /\ scen = "mismatch"
    /\ \E n \in 1 .. MaxMismatch, t \in 1 .. (MaxMismatch + 1) :
          /\ t # n
          /\ nharts = n
          /\ mem = SmpInitMem(ZeroMem, t)
          /\ resv = [h \in 0 .. (n - 1) |-> "none"]
          /\ ip = [h \in 0 .. (n - 1) |-> 1]
          /\ pc = [h \in 0 .. (n - 1) |-> "start"]
          /\ loc = [h \in 0 .. (n - 1) |-> NoLocals]
          /\ tests = [passed |-> 0, total |-> 0]

SpecMismatch == InitMismatch /\ [][NextBarrier]_vars

\* Wrap scenario: 1..MaxBarrier participants each call barrier_wait six times
\* on a barrier whose generation counter is GenBits wide and, after earlier
\* rounds, holds any value of the word at quiescence.
InitWrap ==
    /\ scen = "wrap"
    /\ \E n \in 1 .. MaxBarrier, g \in 0 .. (GenModulus - 1) :
          /\ nharts = n
          /\ mem = [SmpInitMem(ZeroMem, n) EXCEPT !["bar_generation"] = g]
          /\ resv = [h \in 0 .. (n - 1) |-> "none"]
          /\ ip = [h \in 0 .. (n - 1) |-> 1]
          /\ pc = [h \in 0 .. (n - 1) |-> "start"]
          /\ loc = [h \in 0 .. (n - 1) |-> NoLocals]
          /\ tests = [passed |-> 0, total |-> 0]

SpecWrap == InitWrap /\ [][NextBarrier]_vars

\* The harts of the compare-and-swap scenario run the same code, so their
\* argument pairs are taken in non-decreasing order of hart id: every multiset
\* of calls is explored once.
ArgsOrdered(e, d, n) ==
    \A h \in 1 .. (n - 1) :
        e[h - 1] * (MaxVal + 1) + d[h - 1] <= e[h] * (MaxVal + 1) + d[h]

\* Compare-and-swap scenario: 1..CasHarts harts each call atomic_cas_u32 once
\* on one word that holds a value of 0..MaxVal, with arguments of 0..MaxVal.
InitCas ==
    /\ scen = "cas"
    /\ \E n \in 1 .. CasHarts, x \in 0 .. MaxVal :
          /\ nharts = n
          /\ mem = [SmpInitMem(ZeroMem, n) EXCEPT !["smp_atomic_counter"] = x]
          /\ resv = [h \in 0 .. (n - 1) |-> "none"]
          /\ ip = [h \in 0 .. (n - 1) |-> 1]
          /\ pc = [h \in 0 .. (n - 1) |-> "start"]
          /\ \E e, d \in [0 .. (n - 1) -> 0 .. MaxVal] :
                /\ ArgsOrdered(e, d, n)
                /\ loc = [h \in 0 .. (n - 1) |->
                            [NoLocals EXCEPT !.expected = e[h], !.desired = d[h],
                                             !.entry = x]]
          /\ tests = [passed |-> 0, total |-> 0]

NextCas ==
    \E h \in Harts : atomic_cas_lr(h) \/ atomic_cas_sc(h) \/ atomic_cas_sc_fail(h)

SpecCas == InitCas /\ [][NextCas]_vars

\* Trylock scenario: 1..MaxTry harts each make two attempts on smp_test_lock,
\* releasing the lock after an attempt that returned true.
InitTry ==
    /\ scen = "trylock"
    /\ \E n \in 1 .. MaxTry : InitUnit(n)

NextTry ==
    \E h \in Harts :
        \/ spin_trylock_lr(h)
        \/ spin_trylock_sc(h)
        \/ spin_trylock_sc_fail(h)
        \/ spin_unlock(h)

SpecTry == InitTry /\ [][NextTry]_vars

\* Mixed scenario: 1..MaxTry harts each make one spin_trylock attempt on
\* smp_test_lock and then the spin_lock-protected increment on the same lock.
InitMixed ==
    /\ scen = "mixed"
    /\ \E n \in 1 .. MaxTry : InitUnit(n)

NextMixed ==
    \E h \in Harts :
        \/ spin_trylock_lr(h)
        \/ spin_trylock_sc(h)
        \/ spin_trylock_sc_fail(h)
        \/ SpinLockStep(h)
        \/ LockTestStep(h)

SpecMixed == InitMixed /\ [][NextMixed]_vars

\* Scenario of a lock never released: hart 0 calls spin_lock(&smp_test_lock)
\* and never unlocks; the other harts of 2..MaxStuck make the lock-protected
\* increment on the same lock.
InitStuck ==
    /\ scen = "stuck"
    /\ \E n \in 2 .. MaxStuck : InitUnit(n)

NextStuck == \E h \in Harts : SpinLockStep(h) \/ LockTestStep(h)

SpecStuck == InitStuck /\ [][NextStuck]_vars

\* Init scenario: hart 0 calls smp_init with every shared word holding any
\* value of 0..MaxPrior, for every NUM_HARTS of the supported range.
InitSmpInit ==
    /\ scen = "init"
    /\ \E n \in 1 .. MAX_HARTS :
          /\ nharts = n
          /\ mem \in [Addrs -> 0 .. MaxPrior]
          /\ resv = [h \in 0 .. (n - 1) |-> "none"]
          /\ ip = [h \in 0 .. (n - 1) |-> 1]
          /\ pc = [h \in 0 .. (n - 1) |-> "start"]
          /\ loc = [h \in 0 .. (n - 1) |-> NoLocals]
          /\ tests = [passed |-> 0, total |-> 0]

NextSmpInit == \E h \in Harts : smp_init(h)

SpecSmpInit == InitSmpInit /\ [][NextSmpInit]_vars

(***************************************************************************)
(* Properties                                                              *)
(***************************************************************************)
AllTerminal == \A h \in Harts : Terminal(h)

\* hart h has completed operation op of its program
Completed(h, op) == \E i \in 1 .. (ip[h] - 1) : Program(h)[i] = op

\* the harts holding lock L
Holders(L) == {h \in Harts : Holds(h, L)}

\* C1: for every lock (smp_test_lock, smp_print_lock, the barrier's lock) at
\* most one hart at a time is between a returned spin_lock and its
\* spin_unlock, and a store-conditional only ever succeeds on a lock that is
\* free and that no hart holds.
C1_MutualExclusion ==
    /\ \A L \in Locks : Cardinality(Holders(L)) <= 1
    /\ \A L \in Locks : Holders(L) # {} => mem[L] = 1
    /\ \A h \in Harts :
          (UsesLock(h) /\ pc[h] = "sc" /\ SCMaySucceed(h, LockOf(h)))
             => (mem[LockOf(h)] = 0 /\ Holders(LockOf(h)) = {})

\* one hart holds a lock while another hart, having read it free earlier, is
\* at its store-conditional to the same lock
C1_Witness ==
    \E h, g \in Harts :
        /\ h # g
        /\ \E L \in Locks : Holds(h, L) /\ UsesLock(g) /\ LockOf(g) = L /\ pc[g] = "sc"

\* C2: N harts (N in 1..8) each running spin_lock; smp_lock_counter++;
\* spin_unlock once from counter 0: when all have finished the counter is N.
C2_LockCounterFinal ==
    (scen = "lock" /\ AllTerminal) => mem["smp_lock_counter"] = nharts

\* the lock test has finished with the largest supported number of harts
C2_Witness ==
    scen = "lock" /\ AllTerminal /\ nharts = MAX_HARTS /\ mem["smp_lock_counter"] = MAX_HARTS

\* C3: N harts each running atomic_add_u32(&smp_atomic_counter, 1) once from
\* counter 0, with no lock: when all have finished the counter is N, and at
\* every moment it equals the number of harts that have done their increment.
C3_AtomicCounterFinal ==
    scen = "atomic" =>
        /\ mem["smp_atomic_counter"] = Cardinality({h \in Harts : Completed(h, AtomicTest)})
        /\ AllTerminal => mem["smp_atomic_counter"] = nharts

\* the atomic test has finished with the largest supported number of harts
C3_Witness ==
    scen = "atomic" /\ AllTerminal /\ nharts = MAX_HARTS /\ mem["smp_atomic_counter"] = MAX_HARTS

\* number of barrier_wait calls in which hart h has incremented bar->count
BarriersEntered(h) ==
    BarriersDone(h)
      + (IF CurOp(h).f = "barrier_wait" /\ pc[h] \notin {"start", "sc", "cs", "inc"}
            THEN 1 ELSE 0)

\* C4: no participant has returned from its k-th barrier_wait unless every
\* participant has incremented count in its own k-th barrier_wait.
C4_BarrierSafety ==
    \A h, g \in Harts : BarriersDone(h) <= BarriersEntered(g)

\* a hart has returned from its 2nd barrier_wait while another hart, which
\* has arrived in that round, is still spinning in it
C4_Witness ==
    \E h, g \in Harts :
        /\ BarriersDone(h) = 2
        /\ BarriersDone(g) = 1
        /\ At(g, "barrier_wait", "spin")

\* C5: in the 6-phase protocol a hart that has left barrier k (and so may
\* start the work of phase k+1) finds every hart at or past its call of
\* barrier k, the work before it completed; in particular once any hart has
\* done its atomic increment of smp_atomic_counter every hart has completed
\* its lock-protected increment of smp_lock_counter.
C5_PhaseOrdering ==
    /\ \A h, g \in Harts : BarriersDone(h) <= BarriersReached(g)
    /\ (\E h \in Harts : Completed(h, AtomicTest))
          => (\A g \in Harts : Completed(g, LockTest))
    /\ (\E h \in Harts : Completed(h, AtomicTest)) => mem["smp_lock_counter"] = nharts

\* a hart has done its atomic increment while another hart has not yet
\* left barrier 4
C5_Witness ==
    \E h, g \in Harts :
        /\ Completed(h, AtomicTest)
        /\ BarriersDone(g) = 3
        /\ nharts = MaxHarts

\* C6: under fair scheduling, total participants each calling barrier_wait 6
\* times on the same barrier, with no re-initialisation, all return from all
\* their 6 calls.
C6_BarrierReusable ==
    <>[](\A h \in Harts : BarriersDone(h) = 6 /\ Terminal(h))

\* all participants of the largest barrier have returned from their 6th call
C6_Witness ==
    /\ scen = "barrier"
    /\ nharts = MaxBarrier
    /\ \A h \in Harts : BarriersDone(h) = 6
    /\ mem["bar_generation"] = 6

\* hart h is in barrier_wait and has captured the generation
GenCaptured(h) ==
    /\ CurOp(h).f = "barrier_wait"
    /\ pc[h] \notin {"start", "sc", "cs", "inc", "ldgen"}

\* C7: the generation a participant captured in its k-th barrier_wait is
\* k-1, the generation of the round it is in; while it spins the barrier's
\* generation is that value or the next one, so the bump that releases it is
\* the one of its own round.
C7_NoStaleGeneration ==
    \A h \in Harts :
        GenCaptured(h) =>
            /\ loc[h].gen = BarriersDone(h)
            /\ mem["bar_generation"] \in {loc[h].gen, loc[h].gen + 1}
            /\ (pc[h] \in {"cmp", "reset", "ldbump", "bump", "unlock_w"})
                  => mem["bar_generation"] = loc[h].gen

\* a waiter of round 2 still spins on its captured generation 1 after the
\* barrier moved on to generation 2 and another hart captured 2 in round 3
C7_Witness ==
    \E h, g \in Harts :
        /\ At(h, "barrier_wait", "spin")
        /\ loc[h].gen = 1
        /\ mem["bar_generation"] = 2
        /\ GenCaptured(g)
        /\ loc[g].gen = 2

\* the state the Phase 4 run ends in
EndState ==
    /\ AllTerminal
    /\ mem["smp_harts_online"] = nharts - 1
    /\ mem["bar_generation"] = 6
    /\ mem["bar_count"] = 0
    /\ mem["smp_lock_counter"] = nharts
    /\ mem["smp_atomic_counter"] = nharts

OnlineAdd == Op("atomic_add", "smp_harts_online")

\* the secondaries that have done their increment of smp_harts_online
Announced == {h \in Harts \ {0} : Completed(h, OnlineAdd)}

\* C9: smp_harts_online is 0 until the first secondary increments it, always
\* equals the number of secondaries that have done their one increment, never
\* exceeds NUM_HARTS-1, changes only by +1 in a step of a secondary hart's
\* atomic add, and under fair scheduling reaches NUM_HARTS-1.
C9_OnlineCounter ==
    /\ [](/\ mem["smp_harts_online"] = Cardinality(Announced)
          /\ mem["smp_harts_online"] <= nharts - 1)
    /\ [][mem'["smp_harts_online"] # mem["smp_harts_online"] =>
            /\ mem'["smp_harts_online"] = mem["smp_harts_online"] + 1
            /\ mem["smp_hart_release"] = 1
            /\ \E h \in Harts \ {0} :
                  /\ CurOp(h) = OnlineAdd
                  /\ ip'[h] = ip[h] + 1
                  /\ \A g \in Harts \ {h} : ip'[g] = ip[g] /\ pc'[g] = pc[g]]_vars
    /\ <>(mem["smp_harts_online"] = nharts - 1)

\* with 4 harts the counter has reached 3 while hart 0 is still polling
C9_Witness ==
    /\ nharts = 4
    /\ mem["smp_harts_online"] = 3
    /\ At(0, "poll_online", "start")

\* C10: hart 0 is past the polling loop of test_smp_boot only when every
\* secondary hart has done its atomic increment of the online counter.
C10_PollWaitsForAll ==
    Completed(0, Op("poll_online", "smp_harts_online")) => Announced = Harts \ {0}

\* hart 0 has left the polling loop with 4 harts while a secondary has not
\* yet entered barrier_wait
C10_Witness ==
    /\ nharts = 4
    /\ Completed(0, Op("poll_online", "smp_harts_online"))
    /\ \E h \in Harts \ {0} : BarriersReached(h) = 1 /\ pc[h] = "start"

\* the secondary harts that have left the spin on smp_hart_release and are
\* executing smp_secondary_entry
Entered == {h \in Harts \ {0} : ip[h] > 1}

\* C11: smp_hart_release changes exactly once in a run: it only ever goes from
\* 0 to 1, in hart 0's step of smp_release_harts, it stays 1 afterwards, under
\* fair scheduling the change happens, and while it is 0 no secondary hart
\* has taken any step of smp_secondary_entry.
C11_ReleaseOnce ==
    /\ [](/\ mem["smp_hart_release"] \in {0, 1}
          /\ mem["smp_hart_release"] = 0 => Entered = {}
          /\ mem["smp_hart_release"] = 1 <=>
                Completed(0, Op("smp_release_harts", "smp_hart_release")))
    /\ [][mem'["smp_hart_release"] # mem["smp_hart_release"] =>
            /\ mem["smp_hart_release"] = 0
            /\ mem'["smp_hart_release"] = 1
            /\ At(0, "smp_release_harts", "start")
            /\ ip'[0] = ip[0] + 1
            /\ \A g \in Harts \ {0} : ip'[g] = ip[g] /\ pc'[g] = pc[g]]_vars
    /\ <>(mem["smp_hart_release"] = 1)

\* the flag is set and, of 4 harts, one secondary is already in the barrier
\* while another has not yet left its spin on the flag
C11_Witness ==
    /\ nharts = 4
    /\ mem["smp_hart_release"] = 1
    /\ \E h, g \in Harts \ {0} :
          /\ h # g
          /\ ip[g] = 1
          /\ CurOp(h) = Barrier /\ Holds(h, "bar_lock")

\* C12: the online counter, both test counters, both spinlocks and the
\* barrier are initialised by smp_init before the release flag is set: the
\* flag is set only after smp_init has completed, at the moment a secondary
\* can first run the shared state holds smp_init's values, and a secondary
\* executes smp_secondary_entry only after smp_init has completed.
C12_InitBeforeRelease ==
    /\ mem["smp_hart_release"] # 0 => Completed(0, Op("smp_init", "none"))
    /\ Entered # {} => Completed(0, Op("smp_init", "none"))
    /\ (mem["smp_hart_release"] # 0 /\ Entered = {}) =>
          mem = [SmpInitMem(ZeroMem, nharts) EXCEPT !["smp_hart_release"] = 1]
    /\ Entered # {} => mem["bar_total"] = nharts

\* hart 0 has just set the flag after smp_init and every secondary of 4 harts
\* is still in its spin
C12_Witness ==
    /\ nharts = 4
    /\ Completed(0, Op("smp_init", "none"))
    /\ At(0, "poll_online", "start")
    /\ mem["smp_hart_release"] = 1
    /\ Entered = {}

\* C13: with total == 1 (a single hart on the barrier) every call of
\* barrier_wait takes the last-arriver branch: the hart is never on the
\* waiter's path (the unlock before the spin loop, or the loop itself), and
\* between calls the count is 0, the generation equals the number of calls
\* returned from (one more per call) and the barrier's lock is released.
C13_SingleHartBarrier ==
    (scen = "barrier" /\ nharts = 1) =>
        /\ mem["bar_total"] = 1
        /\ pc[0] \notin {"unlock_w", "spin"}
        /\ pc[0] = "start" =>
              /\ mem["bar_count"] = 0
              /\ mem["bar_generation"] = BarriersDone(0)
              /\ mem["bar_lock"] = 0
              /\ Holders("bar_lock") = {}
        /\ pc[0] # "start" =>
              mem["bar_generation"] \in {BarriersDone(0), BarriersDone(0) + 1}

\* the single hart has returned from its sixth barrier_wait
C13_Witness ==
    /\ scen = "barrier" /\ nharts = 1
    /\ Terminal(0)
    /\ BarriersDone(0) = 6
    /\ mem["bar_generation"] = 6 /\ mem["bar_count"] = 0 /\ mem["bar_lock"] = 0

\* C14: a single hart calling atomic_cas_u32(p, expected, desired), nothing
\* else writing *p: if *p equalled expected at the call it returns 1 and
\* leaves *p == desired, otherwise it returns 0 and leaves *p unchanged; the
\* word is not written before the call returns.
C14_CasAlone ==
    (scen = "cas" /\ nharts = 1) =>
        /\ ~Terminal(0) => mem["smp_atomic_counter"] = loc[0].entry
        /\ Terminal(0) =>
              IF loc[0].entry = loc[0].expected
                 THEN loc[0].ret = 1 /\ mem["smp_atomic_counter"] = loc[0].desired
                 ELSE loc[0].ret = 0 /\ mem["smp_atomic_counter"] = loc[0].entry

\* a lone successful call that changed the word
C14_Witness ==
    /\ scen = "cas" /\ nharts = 1 /\ Terminal(0)
    /\ loc[0].entry = loc[0].expected /\ loc[0].desired # loc[0].entry
    /\ loc[0].ret = 1 /\ mem["smp_atomic_counter"] = loc[0].desired

\* the harts whose atomic_cas_u32 has returned success
CasWinners == {h \in Harts : Terminal(h) /\ loc[h].ret = 1}

\* every hart passes the word's starting value X as expected and a desired # X
SameExpected ==
    \A h \in Harts : loc[h].expected = loc[h].entry /\ loc[h].desired # loc[h].entry

\* C15: when several harts call atomic_cas_u32 on one word holding X, each
\* with expected == X and a desired value other than X, at most one of the
\* calls returns success, whatever the interleaving of their LR and SC steps.
C15_CasOneWinner ==
    (scen = "cas" /\ SameExpected) => Cardinality(CasWinners) <= 1

\* three harts, not all with the same desired value, have all returned: one
\* succeeded and the other two failed
C15_Witness ==
    /\ scen = "cas" /\ nharts = 3 /\ SameExpected /\ AllTerminal
    /\ \E h, g \in Harts : loc[h].desired # loc[g].desired
    /\ Cardinality(CasWinners) = 1
    /\ Cardinality({h \in Harts : loc[h].ret = 0}) = 2

\* the harts whose one atomic_add_u32 has returned
Added == {h \in Harts : Terminal(h)}

\* C16: atomic_add_u32(p, 1) returns the value the word held before the
\* addition: with N harts each calling it once on a word that starts at 0, the
\* values returned so far are pairwise distinct and are exactly
\* 0 .. (number of calls returned) - 1, so when all N have returned they are
\* exactly 0 .. N-1.
C16_AddReturnsPrevious ==
    scen = "atomic" =>
        /\ \A h, g \in Added : h # g => loc[h].ret # loc[g].ret
        /\ {loc[h].ret : h \in Added} = 0 .. (Cardinality(Added) - 1)
        /\ mem["smp_atomic_counter"] = Cardinality(Added)
        /\ AllTerminal => {loc[h].ret : h \in Harts} = 0 .. (nharts - 1)

\* all 8 harts have returned, and not in the order of their hart ids: hart 0
\* was the last to add and hart 7 the first
C16_Witness ==
    /\ scen = "atomic" /\ nharts = MAX_HARTS /\ AllTerminal
    /\ loc[0].ret = MAX_HARTS - 1
    /\ loc[MAX_HARTS - 1].ret = 0

\* hart h takes a step of its program
Steps(h) == pc'[h] # pc[h] \/ ip'[h] # ip[h]

\* hart h's spin_trylock returns false in this step
ReturnsFalse(h) ==
    /\ CurOp(h).f = "spin_trylock"
    /\ pc[h] \in {"start", "sc"}
    /\ ip'[h] = ip[h] + 1

\* hart h's spin_trylock returns true in this step
ReturnsTrue(h) ==
    /\ CurOp(h).f = "spin_trylock"
    /\ pc[h] = "sc"
    /\ pc'[h] = "unlock"

\* C17: spin_trylock never loops. Its lr is followed by the return of false
\* or by its one sc, and the sc by the return, never by the lr again; the lr
\* and every step that returns false leave the lock word as it was, so a call
\* that returns false has not modified the lock word.
C17_TrylockNoLoop ==
    [][\A h \in Harts :
          (CurOp(h).f = "spin_trylock" /\ Steps(h)) =>
             /\ pc[h] = "start" =>
                   \/ pc'[h] = "sc" /\ ip'[h] = ip[h] /\ mem' = mem
                   \/ ReturnsFalse(h) /\ loc'[h].ret = 0 /\ mem' = mem
             /\ pc[h] = "sc" =>
                   \/ ReturnsTrue(h) /\ ip'[h] = ip[h] /\ loc'[h].ret = 1
                   \/ ReturnsFalse(h) /\ loc'[h].ret = 0 /\ mem' = mem]_vars

\* a hart is at the sc of its second attempt, its first having returned false,
\* while another hart holds the lock
C17_Witness ==
    /\ scen = "trylock"
    /\ \E h, g \in Harts :
          /\ h # g
          /\ ip[h] = 2 /\ pc[h] = "sc" /\ loc[h].ret = 0
          /\ Holds(g, "smp_test_lock")

\* C18: spin_trylock returns true when it acquired the lock (the lock was free
\* and is now held by the caller alone) and returns false only if the lock is
\* held by some hart at that moment: never on a lock that nobody holds.
C18_FalseOnlyIfHeld ==
    [][\A h \in Harts :
          /\ ReturnsTrue(h) =>
                /\ mem[LockOf(h)] = 0 /\ mem'[LockOf(h)] = 1
                /\ Holders(LockOf(h)) = {}
          /\ ReturnsFalse(h) =>
                (mem[LockOf(h)] # 0 /\ Holders(LockOf(h)) # {})]_vars

PrintOnline == Op("print_online", "smp_print_lock")

\* hart h's next step writes to the console: a console_puts of hart 0 (those
\* of record_test and print_summary included) or one of the three writes of
\* a secondary's "[SMP] Hart <id> online" line
AtConsoleWrite(h) ==
    \/ CurOp(h).f \in {"puts", "record_test", "print_summary"} /\ pc[h] = "start"
    \/ CurOp(h) = PrintOnline /\ pc[h] \in {"cs", "puts2", "puts3"}

\* C19: whenever a hart writes to the console it holds smp_print_lock.
C19_PrintLockHeld ==
    \A h \in Harts : AtConsoleWrite(h) => Holds(h, "smp_print_lock")

\* the number of "[SMP] Hart <id> online" lines smp_secondary_entry prints
LinesPerSecondary ==
    Cardinality({i \in 1 .. Len(smp_secondary_entry) :
                    smp_secondary_entry[i] = PrintOnline})

\* C20: no two harts are inside a console write at the same time: from the
\* first to the last write of a secondary's "[SMP] Hart <id> online" line no
\* other hart writes (neither another secondary nor hart 0), each secondary
\* prints the line exactly once, and all the lines are out when hart 0 goes
\* on printing after its polling loop.
C20_LinesNotInterleaved ==
    /\ [](/\ Cardinality({h \in Harts : AtConsoleWrite(h)}) <= 1
          /\ LinesPerSecondary = 1
          /\ Completed(0, Op("poll_online", "smp_harts_online")) =>
                \A h \in Harts \ {0} : Completed(h, PrintOnline))
    /\ [][\A h \in Harts \ {0} :
            (CurOp(h) = PrintOnline /\ pc[h] \in {"puts2", "puts3"}) =>
               \A g \in Harts \ {h} : ~(AtConsoleWrite(g) /\ Steps(g))]_vars

\* with 4 harts one secondary is in the middle of its line, another is at the
\* store-conditional of its spin_lock(&smp_print_lock), the third has printed
\* its line, and hart 0 is polling
C20_Witness ==
    /\ nharts = 4
    /\ At(0, "poll_online", "start")
    /\ \E h, g, k \in Harts \ {0} :
          /\ CurOp(h) = PrintOnline /\ pc[h] = "puts3"
          /\ CurOp(g) = PrintOnline /\ pc[g] = "sc"
          /\ Completed(k, PrintOnline)

\* C23 as stated: in every reachable state bar->count is in [0, total), never
\* equal to total or above it.
C23_CountBelowTotal ==
    mem["bar_count"] \in 0 .. (mem["bar_total"] - 1)

\* the last arriver of the round: it holds the barrier's lock and has stored
\* its increment of the count but not yet the reset
LastArriverBeforeReset(h) ==
    /\ Holds(h, "bar_lock")
    /\ pc[h] \in {"ldgen", "cmp", "reset"}

\* C23 (amended): bar->count is always in [0, total]; it is below total
\* whenever the barrier's lock is free, and it equals total only while the
\* last arriver of a round holds the lock between its bar->count++ and its
\* bar->count = 0.
C23_CountRange ==
    /\ mem["bar_count"] \in 0 .. mem["bar_total"]
    /\ Holders("bar_lock") = {} => mem["bar_count"] < mem["bar_total"]
    /\ mem["bar_count"] = mem["bar_total"] =>
          \E h \in Harts : LastArriverBeforeReset(h)

\* in the sixth round of 4 harts the last arriver is at its comparison with
\* count == total == 4 while the three others spin
C23_Witness ==
    /\ nharts = 4
    /\ mem["bar_count"] = 4 /\ mem["bar_total"] = 4
    /\ mem["bar_generation"] = 5
    /\ \E h \in Harts :
          /\ At(h, "barrier_wait", "cmp")
          /\ \A g \in Harts \ {h} : At(g, "barrier_wait", "spin")

\* the harts on the last arriver's branch of barrier_wait
LastArrivers ==
    {h \in Harts : CurOp(h).f = "barrier_wait"
                      /\ pc[h] \in {"reset", "ldbump", "bump", "unlock"}}

\* hart h alone takes a step, from position p of barrier_wait, holding the
\* barrier's lock
BarrierStepAt(h, p) ==
    /\ At(h, "barrier_wait", p)
    /\ Holds(h, "bar_lock")
    /\ Steps(h)
    /\ \A g \in Harts \ {h} : ~Steps(g)

\* C24: in each barrier round exactly one participant, the one whose
\* increment brought count to total, resets count to 0 and increments
\* generation; it does both holding the barrier's lock, the reset before the
\* bump; generation grows by exactly 1 per round, so it always equals the
\* number of rounds completed.
C24_OneResetPerRound ==
    /\ [](/\ Cardinality(LastArrivers) <= 1
          /\ \A h \in LastArrivers : Holds(h, "bar_lock")
          /\ \A h \in Harts :
                /\ BarriersDone(h) <= mem["bar_generation"]
                /\ mem["bar_generation"] <= BarriersDone(h) + 1)
    /\ [][/\ (mem'["bar_count"] = 0 /\ mem["bar_count"] # 0) =>
               /\ mem["bar_count"] = mem["bar_total"]
               /\ mem'["bar_generation"] = mem["bar_generation"]
               /\ \E h \in Harts : BarrierStepAt(h, "reset")
          /\ mem'["bar_generation"] # mem["bar_generation"] =>
               /\ mem'["bar_generation"] = mem["bar_generation"] + 1
               /\ mem["bar_count"] = 0 /\ mem'["bar_count"] = 0
               /\ \E h \in Harts : BarrierStepAt(h, "bump")]_vars

\* in round 4 of 4 harts the last arriver has reset the count and is about to
\* store generation 4 while the three others spin on generation 3
C24_Witness ==
    /\ nharts = 4
    /\ mem["bar_count"] = 0 /\ mem["bar_generation"] = 3
    /\ \E h \in Harts :
          /\ At(h, "barrier_wait", "bump")
          /\ \A g \in Harts \ {h} : At(g, "barrier_wait", "spin") /\ loc[g].gen = 3

\* the participants in the spin loop of barrier_wait
Waiters == {h \in Harts : At(h, "barrier_wait", "spin")}

\* C25: bar->generation strictly monotonically increases: no step decreases
\* it, every change is to a value above all earlier ones, so it never returns
\* to the value of an earlier round; and it is the only variable a waiting
\* participant reads to detect release: a waiter can leave its loop exactly
\* when generation differs from the value it captured, whatever count holds,
\* and leaves it without writing anything.
C25_GenerationMonotonic ==
    /\ [](\A h \in Waiters :
            (ENABLED barrier_spin_exit(h)) <=> mem["bar_generation"] # loc[h].gen)
    /\ [][/\ mem'["bar_generation"] >= mem["bar_generation"]
          /\ mem'["bar_generation"] # mem["bar_generation"] =>
                /\ mem'["bar_generation"] > mem["bar_generation"]
                /\ \A h \in Harts : mem'["bar_generation"] > BarriersDone(h)
          /\ \A h \in Waiters :
                Steps(h) => /\ mem["bar_generation"] > loc[h].gen
                            /\ mem' = mem]_vars

\* a waiter of round 2 can leave its loop (generation 2, captured 1) while
\* count is already 2 again, two harts having arrived in round 3
C25_Witness ==
    \E h \in Waiters :
        /\ loc[h].gen = 1
        /\ mem["bar_generation"] = 2
        /\ mem["bar_count"] = 2
        /\ nharts = 4

\* hart h's next step reads or writes bar->count: the load and the store of
\* bar->count++, the comparison with total, the reset
AccessesCount(h) ==
    /\ CurOp(h).f = "barrier_wait"
    /\ pc[h] \in {"cs", "inc", "cmp", "reset"}

\* hart h is on the waiter's path of barrier_wait: at the spin_unlock of the
\* else branch or in the spin loop
OnWaiterPath(h) ==
    /\ CurOp(h).f = "barrier_wait"
    /\ pc[h] \in {"unlock_w", "spin"}

\* C26: in barrier_wait bar->count is read and written only by the hart that
\* holds bar->lock (the lock word is 1 and that hart is its one holder), every
\* change of count is such a hart's step, and a non-last arriver, from its
\* spin_unlock on, only goes to the spin loop and from there returns: it takes
\* no step that accesses count and count does not change by its steps.
C26_CountUnderLock ==
    /\ [](\A h \in Harts :
            AccessesCount(h) =>
                (mem["bar_lock"] = 1 /\ Holders("bar_lock") = {h}))
    /\ [][/\ mem'["bar_count"] # mem["bar_count"] =>
                \E h \in Harts : BarrierStepAt(h, "inc") \/ BarrierStepAt(h, "reset")
          /\ \A h \in Harts :
                (OnWaiterPath(h) /\ Steps(h)) =>
                    /\ mem'["bar_count"] = mem["bar_count"]
                    /\ \/ pc[h] = "unlock_w" /\ pc'[h] = "spin" /\ ip'[h] = ip[h]
                       \/ pc[h] = "spin" /\ ip'[h] = ip[h] + 1]_vars

\* a waiter of round 2 is still in its spin loop while the first arriver of
\* round 3 holds the lock between the load and the store of bar->count++
C26_Witness ==
    \E h, g \in Harts :
        /\ At(h, "barrier_wait", "spin") /\ BarriersDone(h) = 1
        /\ At(g, "barrier_wait", "inc") /\ BarriersDone(g) = 2
        /\ mem["bar_lock"] = 1

Counters == {"smp_lock_counter", "smp_atomic_counter", "smp_harts_online"}

\* hart h's next step is a plain load or store of v, with no lock held and not
\* through an atomic primitive: the reset, the comparison with NUM_HARTS and
\* the int_to_str of the counter in main.c
PlainAccess(h, v) ==
    /\ CurOp(h).f \in {"reset", "check", "puts"}
    /\ CurOp(h).a = v

\* hart h's next step accesses smp_lock_counter in spin_lock .. spin_unlock
LockedAccess(h) == CurOp(h) = LockTest /\ pc[h] \in {"cs", "inc"}

\* hart h's next step accesses v through atomic_add_u32 or, in the polling
\* loop of smp_get_harts_online, through atomic_load_u32
AtomicAccess(h, v) ==
    /\ CurOp(h).f \in {"atomic_add", "poll_online"}
    /\ CurOp(h).a = v

\* the operation of the 6-phase protocol in which every hart updates v
UpdateOp(v) ==
    CASE v = "smp_lock_counter" -> LockTest
      [] v = "smp_atomic_counter" -> AtomicTest
      [] v = "smp_harts_online" -> OnlineAdd

\* C27 as stated: once the secondaries are released, smp_lock_counter is
\* touched only by a hart holding smp_test_lock, smp_atomic_counter and
\* smp_harts_online only through the atomic primitives, and no hart makes a
\* plain unprotected load or store of any of them.
C27_OneAccessMode ==
    mem["smp_hart_release"] = 1 =>
        \A h \in Harts, v \in Counters : ~PlainAccess(h, v)

\* C27 (amended): the secondaries touch smp_lock_counter only holding
\* smp_test_lock, and smp_atomic_counter and smp_harts_online only through
\* the atomic primitives. Hart 0 does the same inside the phases, and in
\* addition resets and reads smp_lock_counter and smp_atomic_counter by plain
\* unlocked accesses; at each of these no other hart is in its update of that
\* counter: at a reset none has started it, at a read all have completed it.
C27_AccessModes ==
    /\ \A h \in Harts \ {0}, v \in Counters : ~PlainAccess(h, v)
    /\ \A h \in Harts :
          LockedAccess(h) =>
              (mem["smp_test_lock"] = 1 /\ Holders("smp_test_lock") = {h})
    /\ \A v \in Counters :
          PlainAccess(0, v) =>
              /\ v # "smp_harts_online"
              /\ \A g \in Harts \ {0} : CurOp(g) # UpdateOp(v)
              /\ CurOp(0).f = "reset" =>
                    \A g \in Harts : ~Completed(g, UpdateOp(v))
              /\ CurOp(0).f \in {"check", "puts"} =>
                    /\ \A g \in Harts : Completed(g, UpdateOp(v))
                    /\ mem[v] = nharts

\* hart 0 is at its plain reset of smp_lock_counter while, of 4 harts, one
\* secondary spins in barrier 2 and another is still in barrier 1
C27_Witness ==
    /\ nharts = 4
    /\ mem["smp_hart_release"] = 1
    /\ PlainAccess(0, "smp_lock_counter") /\ CurOp(0).f = "reset"
    /\ \E g, k \in Harts \ {0} :
          /\ At(g, "barrier_wait", "spin") /\ BarriersDone(g) = 1
          /\ CurOp(k) = Barrier /\ BarriersDone(k) = 0

\* hart h's next step is the store of spin_unlock(LockOf(h))
AtUnlock(h) == TakesLock(h) /\ pc[h] \in {"unlock", "unlock_w"}

\* C28: in the test sequence every spin_unlock(L) is executed by the hart
\* that holds L: at the unlock the lock word is 1 (the lock is not already
\* unlocked) and the unlocking hart is its one holder; a lock word is 1
\* exactly while some hart holds it, it becomes 1 only in the step that makes
\* the stepping hart the holder and 0 only in that holder's spin_unlock, so
\* the unlocking hart is the one whose spin_lock succeeded last.
C28_UnlockByHolder ==
    /\ [](/\ \A h \in Harts :
                AtUnlock(h) =>
                    (mem[LockOf(h)] = 1 /\ Holders(LockOf(h)) = {h})
          /\ \A L \in Locks : mem[L] = 1 <=> Holders(L) # {})
    /\ [][\A L \in Locks :
            /\ (mem[L] = 0 /\ mem'[L] # 0) =>
                  \E h \in Harts :
                      /\ UsesLock(h) /\ LockOf(h) = L /\ pc[h] = "sc"
                      /\ pc'[h] = "cs"
                      /\ \A g \in Harts \ {h} : ~Steps(g)
            /\ (mem[L] # 0 /\ mem'[L] = 0) =>
                  \E h \in Harts :
                      /\ AtUnlock(h) /\ LockOf(h) = L /\ Steps(h)
                      /\ Holders(L) = {h}
                      /\ \A g \in Harts \ {h} : ~Steps(g)]_vars

\* a non-last arriver is at its spin_unlock of the barrier's lock while the
\* two other harts of 3 are in spin_lock on that lock, one of them at a
\* store-conditional that can only fail
C28_Witness ==
    /\ nharts = 3
    /\ \E h, g, k \in Harts :
          /\ At(h, "barrier_wait", "unlock_w")
          /\ At(g, "barrier_wait", "sc") /\ resv[g] = "none"
          /\ At(k, "barrier_wait", "start")

\* hart h is at the store-conditional of spin_lock or spin_trylock on L
AtSC(h, L) == TakesLock(h) /\ LockOf(h) = L /\ pc[h] = "sc"

\* hart h is at the load-reserved of spin_lock or spin_trylock on L
AtLR(h, L) == TakesLock(h) /\ LockOf(h) = L /\ pc[h] = "start"

\* C29: a spinlock word only ever holds 0 or 1. It changes 0 -> 1 only in a
\* successful store-conditional of spin_lock or spin_trylock and 1 -> 0 only
\* in spin_unlock; the load-reserved (whatever it reads) and a failed
\* store-conditional leave the word unchanged.
C29_LockWordValues ==
    /\ [](\A L \in Locks : mem[L] \in {0, 1})
    /\ [][\A L \in Locks :
            /\ mem'[L] # mem[L] =>
                  \/ /\ mem[L] = 0 /\ mem'[L] = 1
                     /\ \E h \in Harts :
                           /\ AtSC(h, L) /\ resv[h] = L
                           /\ pc'[h] \in {"cs", "unlock"}
                  \/ /\ mem[L] = 1 /\ mem'[L] = 0
                     /\ \E h \in Harts : AtUnlock(h) /\ LockOf(h) = L /\ Steps(h)
            /\ \A h \in Harts :
                  (AtLR(h, L) /\ Steps(h)) => mem'[L] = mem[L]
            /\ \A h \in Harts :
                  (AtSC(h, L) /\ Steps(h) /\ pc'[h] \notin {"cs", "unlock"})
                      => mem'[L] = mem[L]]_vars

\* one hart holds smp_test_lock through spin_trylock while another, in
\* spin_lock on the same lock, is at a store-conditional that can only fail
\* and a third is past its spin_trylock attempt
C29_Witness ==
    /\ scen = "mixed"
    /\ \E h, g, k \in Harts :
          /\ At(h, "spin_trylock", "unlock")
          /\ At(g, "lock_test", "sc") /\ resv[g] = "none"
          /\ ip[k] = 2 /\ k # g
          /\ mem["smp_test_lock"] = 1

\* hart 0 has returned from spin_lock(&smp_test_lock) and never unlocks
KeepsLock == scen = "stuck" /\ At(0, "spin_lock", "cs")

\* hart h is inside a call of spin_lock on smp_test_lock
InSpinLock(h) ==
    /\ UsesLock(h) /\ LockOf(h) = "smp_test_lock"
    /\ pc[h] \in {"start", "sc"}

\* C30: once a hart has acquired a spinlock that it never releases, the lock
\* word stays 1, that hart stays its only holder, and every other hart that
\* is in spin_lock on that lock, or calls it afterwards, stays inside the
\* call at every later step: it never returns.
C30_WaitersNeverReturn ==
    /\ [](KeepsLock =>
            /\ mem["smp_test_lock"] = 1
            /\ Holders("smp_test_lock") = {0})
    /\ [][KeepsLock =>
            /\ KeepsLock'
            /\ \A h \in Harts \ {0} :
                  InSpinLock(h) =>
                      (ip'[h] = ip[h] /\ pc'[h] \in {"start", "sc"})]_vars

\* hart 0 keeps the lock; of the three other harts one had made its increment
\* before, one is at the load-reserved and one, having read the lock free
\* earlier, is at a store-conditional that can only fail
C30_Witness ==
    /\ KeepsLock /\ nharts = 4
    /\ mem["smp_lock_counter"] = 1
    /\ \E h, g, k \in Harts \ {0} :
          /\ Terminal(h)
          /\ At(g, "lock_test", "start")
          /\ At(k, "lock_test", "sc")

\* C21: if some participant never makes its k-th call of barrier_wait (it
\* never increments count in a k-th call: it stopped before the call, or never
\* gets the barrier's lock), then no participant ever returns from its k-th
\* barrier_wait: those that made the call stay in it. Checked without any
\* fairness, so that a hart may stop at any point.
C21_AbsentHartBlocks ==
    \A g \in 0 .. (MaxBarrier - 1), k \in 1 .. (Len(barrier_six_times) - 1) :
        [](g \in Harts /\ BarriersEntered(g) < k)
            => [](\A h \in Harts : BarriersDone(h) < k)

\* of 4 participants one has not made its 3rd call while the three others
\* have arrived in round 3 and spin
C21_Witness ==
    /\ scen = "barrier" /\ nharts = 4
    /\ mem["bar_count"] = 3 /\ mem["bar_generation"] = 2
    /\ \E g \in Harts :
          /\ BarriersDone(g) = 2 /\ At(g, "barrier_wait", "start")
          /\ \A h \in Harts \ {g} :
                At(h, "barrier_wait", "spin") /\ BarriersDone(h) = 2

RECURSIVE ArrivalsUpTo(_)
\* the number of increments of bar->count made by harts 0 .. h
ArrivalsUpTo(h) ==
    IF h < 0 THEN 0 ELSE BarriersEntered(h) + ArrivalsUpTo(h - 1)

CasReturns(h) == At(h, "atomic_cas", pc[h]) /\ ip'[h] = ip[h] + 1

\* C31: atomic_cas_u32 returns failure as soon as a load-reserved reads a
\* value different from expected, with no store and no further iteration; a
\* load-reserved that reads expected goes on to the store-conditional; the
\* function goes back to the load-reserved only from a store-conditional that
\* failed (which wrote nothing), and returns success only from a
\* store-conditional that succeeded, which wrote desired.
C31_CasControlFlow ==
    [][\A h \in Harts :
          (scen = "cas" /\ Steps(h)) =>
              LET a == CurOp(h).a
              IN  /\ (pc[h] = "start" /\ mem[a] # loc[h].expected) =>
                        /\ CasReturns(h)
                        /\ loc'[h].ret = 0
                        /\ mem' = mem
                  /\ (pc[h] = "start" /\ mem[a] = loc[h].expected) =>
                        /\ pc'[h] = "sc" /\ ip'[h] = ip[h]
                        /\ mem' = mem
                  /\ pc[h] = "sc" =>
                        \/ /\ pc'[h] = "start" /\ ip'[h] = ip[h]
                           /\ mem' = mem
                        \/ /\ CasReturns(h)
                           /\ loc'[h].ret = 1
                           /\ resv[h] = a
                           /\ mem' = [mem EXCEPT ![a] = loc[h].desired]
                  /\ pc[h] \in {"start", "sc"}]_vars

\* two harts called with expected equal to the word's starting value: one has
\* returned success having changed the word, the other has returned failure
\* after a load-reserved that read the changed word
C31_Witness ==
    /\ scen = "cas" /\ nharts = 2 /\ AllTerminal
    /\ \E h, g \in Harts :
          /\ loc[h].expected = loc[h].entry /\ loc[g].expected = loc[g].entry
          /\ loc[h].desired # loc[h].entry
          /\ loc[h].ret = 1 /\ loc[g].ret = 0
          /\ mem["smp_atomic_counter"] = loc[h].desired

\* the shared words as smp_init leaves them, given the release flag r
AfterSmpInit(r) ==
    [a \in Addrs |->
        CASE a = "smp_hart_release" -> r
          [] a = "bar_total" -> nharts
          [] OTHER -> 0]

\* C32: whatever the shared words held before, a call of smp_init leaves
\* smp_harts_online, smp_lock_counter and smp_atomic_counter 0, both spinlocks
\* unlocked, the barrier with count 0, generation 0, total NUM_HARTS and its
\* lock unlocked, and smp_hart_release as it was.
C32_SmpInitFrame ==
    [][\A h \in Harts :
          (At(h, "smp_init", "start") /\ Steps(h)) =>
              mem' = AfterSmpInit(mem["smp_hart_release"])]_vars

\* smp_init has returned in a build of 2 harts and the release flag still holds
\* the 1 it held before the call, a value smp_init never writes
C32_Witness ==
    /\ scen = "init" /\ nharts = 2
    /\ Completed(0, Op("smp_init", "none"))
    /\ mem = AfterSmpInit(1)

\* hart 0 has reached print_summary
AtSummary == scen = "phase4" /\ CurOp(0).f \in {"print_summary", "platform_exit"}

\* C33: once hart 0 has returned from barrier 3, smp_lock_counter equals
\* NUM_HARTS in every later state, and once it has returned from barrier 5 so
\* does smp_atomic_counter: both checks of hart 0 read NUM_HARTS, and when hart
\* 0 reaches print_summary tests_passed and tests_total are both 4.
C33_AllTestsPass ==
    scen = "phase4" =>
        /\ BarriersDone(0) >= 3 => mem["smp_lock_counter"] = nharts
        /\ BarriersDone(0) >= 5 => mem["smp_atomic_counter"] = nharts
        /\ At(0, "check", "start") => mem[CurOp(0).a] = nharts
        /\ CurOp(0) = Op("record_test", "passed") => loc[0].passed
        /\ AtSummary => tests = [passed |-> 4, total |-> 4]

\* hart 0 is at print_summary with 4 of 4 tests passed in a build of MaxHarts
\* harts, while a secondary is still inside its sixth barrier_wait
C33_Witness ==
    /\ scen = "phase4" /\ nharts = MaxHarts
    /\ CurOp(0).f = "print_summary"
    /\ tests = [passed |-> 4, total |-> 4]
    /\ \E h \in Harts \ {0} : At(h, "barrier_wait", "spin") /\ BarriersDone(h) = 5

\* hart h has started or finished its increment of counter v in the test phase
HasIncremented(h, v) ==
    \/ Completed(h, UpdateOp(v))
    \/ CurOp(h) = UpdateOp(v) /\ pc[h] \in {"inc", "unlock"}

\* C34: until hart 0 has made its reset smp_lock_counter = 0 no hart has
\* returned from barrier 2, and until it has made its reset
\* smp_atomic_counter = 0 no hart has returned from barrier 4; so no hart has
\* read or written the counter for its increment before the reset, and the
\* reset stores 0 over 0, never over an increment.
C34_ResetBeforeIncrements ==
    scen = "phase4" =>
        \A v \in {"smp_lock_counter", "smp_atomic_counter"} :
            ~Completed(0, Op("reset", v)) =>
                /\ \A h \in Harts :
                      /\ BarriersDone(h) < (IF v = "smp_lock_counter" THEN 2 ELSE 4)
                      /\ ~HasIncremented(h, v)
                /\ Completed(0, Op("smp_init", "none")) => mem[v] = 0

\* hart 0 is about to reset smp_lock_counter while a secondary, ahead of it,
\* already spins in barrier 2
C34_Witness ==
    /\ scen = "phase4"
    /\ CurOp(0) = Op("reset", "smp_lock_counter")
    /\ \E h \in Harts \ {0} : At(h, "barrier_wait", "spin") /\ BarriersDone(h) = 1

\* C35: the numbers of barrier_wait calls any two participants have returned
\* from differ by at most 1, and while a participant spins on the generation
\* it captured the barrier's generation is that value or the next one: it
\* does not advance a second time before the participant has left its loop.
C35_NoLapping ==
    /\ \A h, g \in Harts : BarriersDone(h) - BarriersDone(g) <= 1
    /\ \A h \in Waiters :
          /\ mem["bar_generation"] - loc[h].gen \in {0, 1}
          /\ \A g \in Harts :
                (mem["bar_generation"] # loc[h].gen /\ CurOp(g).f = "barrier_wait")
                    => pc[g] \notin {"reset", "ldbump", "bump"}

\* a participant released from round 3 still spins on its captured
\* generation 2 while another one, back from round 3, already spins in round 4
C35_Witness ==
    /\ scen = "barrier"
    /\ \E h, g \in Waiters :
          /\ BarriersDone(h) = 2 /\ loc[h].gen = 2
          /\ BarriersDone(g) = 3 /\ loc[g].gen = 3
          /\ mem["bar_generation"] = 3

\* hart h has executed an instruction of a barrier_wait call it has not yet
\* returned from
InBarrierWait(h) == CurOp(h).f = "barrier_wait" /\ pc[h] # "start"

\* C36: in every state in which no hart is executing inside barrier_wait the
\* barrier is quiescent: count is 0, the barrier's lock is unlocked, and
\* generation is the number of completed rounds, which is the number of
\* barrier_wait calls every participant has returned from.
C36_Quiescent ==
    (\A h \in Harts : ~InBarrierWait(h)) =>
        /\ mem["bar_count"] = 0
        /\ mem["bar_lock"] = 0
        /\ \A h \in Harts : mem["bar_generation"] = BarriersDone(h)

\* between barriers 2 and 3 every hart of a MaxHarts build is in the lock
\* test, none in barrier_wait, one of them holding smp_test_lock
C36_Witness ==
    /\ scen = "phase4" /\ nharts = MaxHarts
    /\ \A h \in Harts : CurOp(h) = LockTest
    /\ Holders("smp_test_lock") # {}
    /\ mem["bar_generation"] = 2

\* the locks hart h holds
HeldBy(h) == {L \in Locks : Holds(h, L)}

\* hart h is in a loop that only another hart's store lets it leave: the
\* acquire loop of a lock, the barrier's spin on generation, the boot spin on
\* the release flag, or hart 0's poll of the online counter
Spinning(h) ==
    \/ TakesLock(h) /\ pc[h] \in {"start", "sc"}
    \/ At(h, "barrier_wait", "spin")
    \/ CurOp(h).f \in {"wait_release", "poll_online"}

RoundBumped(h) ==
    \A g \in Harts :
        /\ BarriersEntered(g) > BarriersDone(h)
        /\ (BarriersDone(g) = BarriersDone(h) /\ CurOp(g).f = "barrier_wait")
              => pc[g] \in {"unlock", "unlock_w", "spin"}

\* C38: with the generation counter GenBits wide and starting at any value,
\* so that some round's bump takes it from 2^GenBits - 1 to 0: no participant
\* returns from its k-th barrier_wait before every participant has arrived
\* in its k-th; a waiter spins exactly until the bump of its own round, when
\* the generation is its captured value plus one modulo 2^GenBits, and then it
\* can leave its loop, whether or not that value is 0; generation stays a
\* value of the word.
C38_GenerationWrap ==
    scen = "wrap" =>
        /\ mem["bar_generation"] \in 0 .. (GenModulus - 1)
        /\ \A h, g \in Harts : BarriersDone(h) <= BarriersEntered(g)
        /\ \A h \in Waiters :
              IF RoundBumped(h)
                 THEN /\ mem["bar_generation"] = (loc[h].gen + 1) % GenModulus
                      /\ ENABLED barrier_spin_exit(h)
                 ELSE /\ mem["bar_generation"] = loc[h].gen
                      /\ ~ENABLED barrier_spin_exit(h)

\* the bump of a round has taken generation from 2^GenBits - 1 to 0: one
\* waiter of that round still holds the captured 2^GenBits - 1 and can leave,
\* another participant has returned and waits in the next round on 0
C38_Witness ==
    /\ scen = "wrap" /\ mem["bar_generation"] = 0
    /\ \E h, g \in Waiters :
          /\ loc[h].gen = GenModulus - 1 /\ RoundBumped(h)
          /\ loc[g].gen = 0 /\ BarriersDone(g) = BarriersDone(h) + 1

\* secondary hart h has made all its console output and all its increments
\* and has arrived in barrier 6
SecondaryDone(h) ==
    /\ Completed(h, PrintOnline)
    /\ Completed(h, OnlineAdd)
    /\ Completed(h, LockTest)
    /\ Completed(h, AtomicTest)
    /\ BarriersEntered(h) = 6

\* hart 0 has returned from barrier 6
Hart0PastFinal == scen = "phase4" /\ BarriersDone(0) = 6

\* C39 as stated: once hart 0 has returned from barrier 6 every secondary has
\* completed its console output and its writes to the counters, and is
\* spinning on the barrier generation or has returned, with no store to
\* shared state left to make.
C39_SecondariesQuiet ==
    Hart0PastFinal =>
        \A h \in Harts \ {0} :
            /\ SecondaryDone(h)
            /\ At(h, "barrier_wait", "spin") \/ Terminal(h)

\* C39 (amended): once hart 0 has returned from barrier 6 every secondary has
\* completed its console output and its writes to the counters and to the
\* barrier's count and generation; it is spinning on the generation, has
\* returned, or, being the last arriver of barrier 6, has still to release
\* the barrier's lock. From then on the only change of shared memory is that
\* one store of 0 to the barrier's lock word.
C39_SecondariesDone ==
    /\ [](Hart0PastFinal =>
             /\ mem["bar_generation"] = 6 /\ mem["bar_count"] = 0
             /\ \A h \in Harts \ {0} :
                   /\ SecondaryDone(h)
                   /\ \/ At(h, "barrier_wait", "spin")
                      \/ Terminal(h)
                      \/ At(h, "barrier_wait", "unlock") /\ mem["bar_lock"] = 1)
    /\ [][Hart0PastFinal =>
             \/ mem' = mem
             \/ /\ mem["bar_lock"] = 1
                /\ mem' = [mem EXCEPT !["bar_lock"] = 0]]_vars

\* hart 0 is at platform_exit while the secondary that arrived last in
\* barrier 6 still holds the barrier's lock and another secondary still spins
C39_Witness ==
    /\ scen = "phase4"
    /\ CurOp(0).f = "platform_exit"
    /\ \E h, g \in Harts \ {0} :
          /\ At(h, "barrier_wait", "unlock") /\ mem["bar_lock"] = 1
          /\ At(g, "barrier_wait", "spin")

=============================================================================
